---- MODULE Spec2Model ----
(***************************************************************************)
(* Model of the GST upload pipeline of src/newserver.js (and of the older  *)
(* calculateGST of src/server.js): the tax aggregation, the business       *)
(* analysis, and the upload / read request handlers working on the shared  *)
(* TaxComplianceAgent and the in-memory filing store.                      *)
(* The knowledge base (the TfIdf index and gstKnowledgeDocuments) with its *)
(* retrieval, and calculateDeadlines, are followed in specifications of    *)
(* their own: SpecKnow and SpecDeadlines.  SpecRate calls determineTaxRate *)
(* on product labels, SpecCheck runs checkCompliance on the analysis.      *)
(*                                                                         *)
(* Text is modelled as a tuple of one-character strings, so that parsing   *)
(* and substring search are computed and not assumed.  Money amounts are   *)
(* integers; the model's inputs hold no decimal point, exponent or         *)
(* "Infinity", and binary rounding of JavaScript numbers is not modelled.  *)
(* Tax liabilities are kept as integer numerators over TaxUnit (= 200),    *)
(* which is exact for integer amounts and integer rates.                   *)
(***************************************************************************)
EXTENDS Integers, Sequences, FiniteSets, TLC

VARIABLES
    salesData,        \* the rows handed to calculateTaxes / calculateGST
    stage,            \* position of the direct call sequence
    taxCalculation,   \* result of calculateTaxes(salesData)
    gstCalculation,   \* result of calculateGST(salesData)
    businessAnalysis, \* result of analyzeBusinessPatterns(salesData, taxCalculation)
    genAI,            \* TRUE iff the Gemini client was constructed at start-up
    agentPlan,        \* taxAgent.compliancePlan, the field of the one shared agent
    filings,          \* userData.filings
    now,              \* the clock read by Date.now(), in stamped milliseconds
    today,            \* year and month (0..11) of new Date()
    uploads,          \* per upload request: position and locals of its handler
    lastRead,         \* the answer sent by the step just taken if it ran a read
                      \* handler, NoRead after any other step
    taxCalculationAgain,   \* result of a second calculateTaxes(salesData)
    deadlines,             \* result of calculateDeadlines() called on  today
    determinedRate,        \* result of determineTaxRate(sale) called on its own
    complianceCheck,       \* result of checkCompliance(businessAnalysis)
    tfidf,                 \* the documents of the TfIdf index, in index order
    gstKnowledgeDocuments, \* the array of knowledge documents
    retrieved              \* query, maxResults and result of the last
                           \* retrieveRelevantKnowledge call

vars == <<salesData, stage, taxCalculation, gstCalculation, businessAnalysis,
          genAI, agentPlan, filings, now, today, uploads, lastRead,
          taxCalculationAgain, deadlines, determinedRate, complianceCheck,
          tfidf, gstKnowledgeDocuments, retrieved>>

calcVars == <<salesData, stage, taxCalculation, gstCalculation, businessAnalysis,
              taxCalculationAgain, deadlines, determinedRate, complianceCheck>>
callVars == <<determinedRate, complianceCheck>>
knowVars == <<tfidf, gstKnowledgeDocuments, retrieved>>
serverVars == <<genAI, agentPlan, filings, now, today, uploads, lastRead, knowVars>>

-----------------------------------------------------------------------------
(* Bounds of the model *)

MaxRows == 2
MaxUploads == 2
MaxFiles == 2
MaxQueryTerms == 2

-----------------------------------------------------------------------------
(* Text helpers *)

Digits == <<"0", "1", "2", "3", "4", "5", "6", "7", "8", "9">>

IsDigit(c) == \E i \in 1..10 : Digits[i] = c

DigitVal(c) == (CHOOSE i \in 1..10 : Digits[i] = c) - 1

UpperCase == <<"A","B","C","D","E","F","G","H","I","J","K","L","M",
               "N","O","P","Q","R","S","T","U","V","W","X","Y","Z">>
LowerCase == <<"a","b","c","d","e","f","g","h","i","j","k","l","m",
               "n","o","p","q","r","s","t","u","v","w","x","y","z">>

\* String.prototype.toLowerCase
toLowerCase(s) ==
    [i \in 1..Len(s) |->
        IF \E k \in 1..26 : UpperCase[k] = s[i]
        THEN LowerCase[CHOOSE k \in 1..26 : UpperCase[k] = s[i]]
        ELSE s[i]]

\* String.prototype.includes
includes(s, pat) ==
    \E i \in 0..(Len(s) - Len(pat)) : SubSeq(s, i + 1, i + Len(pat)) = pat

RECURSIVE SkipSpaces(_)
SkipSpaces(s) ==
    IF s # <<>> /\ Head(s) = " " THEN SkipSpaces(Tail(s)) ELSE s

RECURSIVE DigitPrefix(_, _, _)
\* value and length of the longest prefix of decimal digits of s
DigitPrefix(s, n, acc) ==
    IF s # <<>> /\ IsDigit(Head(s))
    THEN DigitPrefix(Tail(s), n + 1, acc * 10 + DigitVal(Head(s)))
    ELSE [len |-> n, val |-> acc]

NaN == [nan |-> TRUE, v |-> 0]

\* parseFloat on text without decimal point or exponent: leading blanks are
\* skipped, an optional sign is read, then the longest run of digits; text
\* after the digits is ignored; no digit at all gives NaN.
parseFloat(str) ==
    LET s    == SkipSpaces(str)
        neg  == s # <<>> /\ Head(s) = "-"
        body == IF s # <<>> /\ Head(s) \in {"-", "+"} THEN Tail(s) ELSE s
        d    == DigitPrefix(body, 0, 0)
    IN  IF d.len = 0 THEN NaN
        ELSE [nan |-> FALSE, v |-> IF neg THEN 0 - d.val ELSE d.val]

\* JavaScript's  parseFloat(x) || dflt : NaN and 0 are falsy
ParseOr(str, dflt) ==
    LET p == parseFloat(str)
    IN  IF p.nan \/ p.v = 0 THEN dflt ELSE p.v

-----------------------------------------------------------------------------
(* Tax aggregation *)

Percent == 100
TaxUnit == Percent * 2

essential == <<"e","s","s","e","n","t","i","a","l">>
food      == <<"f","o","o","d">>
common    == <<"c","o","m","m","o","n">>
basic     == <<"b","a","s","i","c">>
standard  == <<"s","t","a","n","d","a","r","d">>
processed == <<"p","r","o","c","e","s","s","e","d">>
luxury    == <<"l","u","x","u","r","y">>
premium   == <<"p","r","e","m","i","u","m">>

DefaultRate == 18

\* determineTaxRate with the luxury/premium rule tested before the others
determineTaxRateLuxuryFirst(sale) ==
    LET product == toLowerCase(sale.product)
    IN  IF includes(product, luxury) \/ includes(product, premium) THEN 28
        ELSE IF includes(product, essential) \/ includes(product, food) THEN 0
        ELSE IF includes(product, common) \/ includes(product, basic) THEN 5
        ELSE IF includes(product, standard) \/ includes(product, processed) THEN 12
        ELSE DefaultRate

determineTaxRate(sale) ==
    LET product == toLowerCase(sale.product)
    IN  IF includes(product, essential) \/ includes(product, food) THEN 0
        ELSE IF includes(product, common) \/ includes(product, basic) THEN 5
        ELSE IF includes(product, standard) \/ includes(product, processed) THEN 12
        ELSE IF includes(product, luxury) \/ includes(product, premium) THEN 28
        ELSE DefaultRate

\* the three locals of the forEach callback of calculateTaxes
SaleAmount(sale) == ParseOr(sale.amount, 0)
SaleTaxRate(sale) == ParseOr(sale.taxRate, determineTaxRate(sale))
SaleState(sale) == IF sale.state = "" THEN "Unknown" ELSE sale.state

\* the same locals in calculateGST: the rate defaults to 18
GstTaxRate(sale) == ParseOr(sale.taxRate, DefaultRate)

HomeState == "Home State"

\* A JavaScript object used as a map is a sequence of [key, val] entries in
\* the order Object.keys lists them.
MapKeys(m) == [i \in 1..Len(m) |-> m[i].key]
HasKey(m, k) == \E i \in 1..Len(m) : m[i].key = k
MapGet(m, k) == m[CHOOSE i \in 1..Len(m) : m[i].key = k].val

\* if (!m[k]) m[k] = 0; m[k] += a;   for a string key: a new key goes last
AddByState(m, k, a) ==
    IF HasKey(m, k)
    THEN [i \in 1..Len(m) |-> IF m[i].key = k THEN [key |-> k, val |-> m[i].val + a] ELSE m[i]]
    ELSE Append(m, [key |-> k, val |-> a])

\* the same for a tax rate key: a non-negative integer key is listed in
\* ascending numeric order, whatever the order of insertion
AddBySlab(m, k, a) ==
    IF HasKey(m, k)
    THEN [i \in 1..Len(m) |-> IF m[i].key = k THEN [key |-> k, val |-> m[i].val + a] ELSE m[i]]
    ELSE LET below == Cardinality({i \in 1..Len(m) : m[i].key < k})
         IN  SubSeq(m, 1, below) \o <<[key |-> k, val |-> a]>> \o SubSeq(m, below + 1, Len(m))

\* EmptyTotals with the default state entered before any row is read
EmptyTotalsSeeded ==
    [totalSales |-> 0, cgst |-> 0, sgst |-> 0, igst |-> 0,
     salesByState |-> <<[key |-> "Unknown", val |-> 0]>>, salesByTaxSlab |-> <<>>]

EmptyTotals ==
    [totalSales |-> 0, cgst |-> 0, sgst |-> 0, igst |-> 0,
     salesByState |-> <<>>, salesByTaxSlab |-> <<>>]

\* AddSale with the state compared without regard to case
AddSaleAnyCase(acc, amount, taxRate, state) ==
    LET home == state \in {HomeState, "home state"}
    IN  [totalSales     |-> acc.totalSales + amount,
         salesByState   |-> AddByState(acc.salesByState, state, amount),
         salesByTaxSlab |-> AddBySlab(acc.salesByTaxSlab, taxRate, amount),
         cgst |-> IF home THEN acc.cgst + amount * taxRate ELSE acc.cgst,
         sgst |-> IF home THEN acc.sgst + amount * taxRate ELSE acc.sgst,
         igst |-> IF home THEN acc.igst ELSE acc.igst + 2 * amount * taxRate]

\* AddSale with the inter-state tax halved like the intra-state one
AddSaleHalfIgst(acc, amount, taxRate, state) ==
    LET home == state = HomeState
    IN  [totalSales     |-> acc.totalSales + amount,
         salesByState   |-> AddByState(acc.salesByState, state, amount),
         salesByTaxSlab |-> AddBySlab(acc.salesByTaxSlab, taxRate, amount),
         cgst |-> IF home THEN acc.cgst + amount * taxRate ELSE acc.cgst,
         sgst |-> IF home THEN acc.sgst + amount * taxRate ELSE acc.sgst,
         igst |-> IF home THEN acc.igst ELSE acc.igst + amount * taxRate]

\* one run of the forEach callback; cgst, sgst and igst are numerators over
\* TaxUnit:  amount * (taxRate / 100) / 2  is  amount * taxRate  units
AddSale(acc, amount, taxRate, state) ==
    LET home == state = HomeState
    IN  [totalSales     |-> acc.totalSales + amount,
         salesByState   |-> AddByState(acc.salesByState, state, amount),
         salesByTaxSlab |-> AddBySlab(acc.salesByTaxSlab, taxRate, amount),
         cgst |-> IF home THEN acc.cgst + amount * taxRate ELSE acc.cgst,
         sgst |-> IF home THEN acc.sgst + amount * taxRate ELSE acc.sgst,
         igst |-> IF home THEN acc.igst ELSE acc.igst + 2 * amount * taxRate]

\* Totals with totalTax leaving out the state half of the intra-state tax
TotalsWithoutSgst(acc) ==
    [totalSales |-> acc.totalSales, cgst |-> acc.cgst, sgst |-> acc.sgst, igst |-> acc.igst,
     totalTax |-> acc.cgst + acc.igst,
     salesByState |-> acc.salesByState, salesByTaxSlab |-> acc.salesByTaxSlab]

\* the object literal returned at the end
Totals(acc) ==
    [totalSales |-> acc.totalSales, cgst |-> acc.cgst, sgst |-> acc.sgst, igst |-> acc.igst,
     totalTax |-> acc.cgst + acc.sgst + acc.igst,
     salesByState |-> acc.salesByState, salesByTaxSlab |-> acc.salesByTaxSlab]

RECURSIVE TaxFold(_, _)
TaxFold(data, acc) ==
    IF data = <<>> THEN acc
    ELSE LET sale == Head(data)
         IN  TaxFold(Tail(data),
                     AddSale(acc, SaleAmount(sale), SaleTaxRate(sale), SaleState(sale)))

calculateTaxes(data) == Totals(TaxFold(data, EmptyTotals))

RECURSIVE GstFold(_, _)
GstFold(data, acc) ==
    IF data = <<>> THEN acc
    ELSE LET sale == Head(data)
         IN  GstFold(Tail(data),
                     AddSale(acc, SaleAmount(sale), GstTaxRate(sale), SaleState(sale)))

calculateGST(data) == Totals(GstFold(data, EmptyTotals))

-----------------------------------------------------------------------------
(* Business analysis *)

\* keys.reduce((a, b) => m[a] > m[b] ? a : b) on a non-empty key list: the
\* accumulator starts as the first key and is compared with each later key
RECURSIVE ReduceFrom(_, _, _)
ReduceFrom(m, a, i) ==
    IF i > Len(m) THEN m[a].key
    ELSE ReduceFrom(m, IF m[a].val > m[i].val THEN a ELSE i, i + 1)

reduceMaxKey(m) == ReduceFrom(m, 1, 2)

\* n / d in JavaScript: a zero divisor gives NaN or an infinity, no error
Quotient(n, d) ==
    [kind |-> IF d # 0 THEN "finite" ELSE IF n = 0 THEN "NaN" ELSE "Infinity",
     num |-> n, den |-> d]

MicroLimit == 100000
SmallLimit == 1000000
MediumLimit == 5000000

\* classifyBusinessSize with the limits counted into the lower class
classifyBusinessSizeInclusive(totalSales) ==
    IF totalSales <= MicroLimit THEN "Micro"
    ELSE IF totalSales <= SmallLimit THEN "Small"
    ELSE IF totalSales <= MediumLimit THEN "Medium"
    ELSE "Large"

classifyBusinessSize(totalSales) ==
    IF totalSales < MicroLimit THEN "Micro"
    ELSE IF totalSales < SmallLimit THEN "Small"
    ELSE IF totalSales < MediumLimit THEN "Medium"
    ELSE "Large"

MaxLowSlabs == 3
BurdenPercent == 15

\* 0.15 as a numerator over TaxUnit
BurdenUnits == (BurdenPercent * TaxUnit) \div Percent

\* totalTax / totalSales > 0.15, totalTax being a numerator over TaxUnit; a
\* zero totalSales gives NaN (false) or an infinity (true iff positive)
HighTaxBurden(tc) ==
    IF tc.totalSales = 0 THEN tc.totalTax > 0
    ELSE IF tc.totalSales > 0
         THEN tc.totalTax > BurdenUnits * tc.totalSales
         ELSE tc.totalTax < BurdenUnits * tc.totalSales

riskScore(tc) ==
    (IF tc.igst > 0 THEN 1 ELSE 0)
    + (IF Len(tc.salesByTaxSlab) > MaxLowSlabs THEN 1 ELSE 0)
    + (IF HighTaxBurden(tc) THEN 1 ELSE 0)

assessComplianceRisk(data, tc) ==
    IF riskScore(tc) < 2 THEN "Low" ELSE IF riskScore(tc) < 4 THEN "Medium" ELSE "High"

\* analyzeBusinessPatterns with reduce given an initial value: nothing is
\* thrown on empty maps and the average of no rows is 0 / 0
analyzeBusinessPatternsSeeded(data, tc) ==
    [threw |-> FALSE,
     value |-> [primaryTaxSlab     |-> IF tc.salesByTaxSlab = <<>> THEN 0
                                       ELSE reduceMaxKey(tc.salesByTaxSlab),
                primaryState       |-> IF tc.salesByState = <<>> THEN ""
                                       ELSE reduceMaxKey(tc.salesByState),
                averageTransaction |-> Quotient(tc.totalSales, Len(data)),
                businessSize       |-> classifyBusinessSize(tc.totalSales),
                complianceRisk     |-> assessComplianceRisk(data, tc)]]

\* Array.prototype.reduce without an initial value throws a TypeError on an
\* empty array; the exception leaves analyzeBusinessPatterns
analyzeBusinessPatterns(data, tc) ==
    IF tc.salesByTaxSlab = <<>> \/ tc.salesByState = <<>>
    THEN [threw |-> TRUE, error |-> "TypeError"]
    ELSE [threw |-> FALSE,
          value |-> [primaryTaxSlab     |-> reduceMaxKey(tc.salesByTaxSlab),
                     primaryState       |-> reduceMaxKey(tc.salesByState),
                     averageTransaction |-> Quotient(tc.totalSales, Len(data)),
                     businessSize       |-> classifyBusinessSize(tc.totalSales),
                     complianceRisk     |-> assessComplianceRisk(data, tc)]]

-----------------------------------------------------------------------------
(* Inputs of the model *)

T_abc     == <<"a","b","c">>
T_1000    == <<"1","0","0","0">>
T_2000    == <<"2","0","0","0">>
T_neg500  == <<"-","5","0","0">>
T_18      == <<"1","8">>
T_0       == <<"0">>
T_food    == <<"F","r","e","s","h"," ","F","o","o","d">>
T_luxury  == <<"L","u","x","u","r","y"," ","c","a","r">>

AmountTexts == {T_abc, T_1000, T_2000, T_neg500}
StateTexts == {"", "Home State", "Other", "home state"}

\* the taxRate and product columns of a row
RateProducts ==
    { [taxRate |-> <<>>, product |-> T_food],
      [taxRate |-> T_0,  product |-> T_luxury] }

\* rows with a stated rate of 18 for every amount and state, and rows whose
\* rate comes from the product label
Rows ==
    { [amount |-> a, taxRate |-> T_18, state |-> s, product |-> <<>>] :
        a \in AmountTexts, s \in StateTexts }
    \cup
    { [amount |-> a, taxRate |-> rp.taxRate, state |-> s, product |-> rp.product] :
        a \in {T_1000, T_neg500}, s \in {"", "Home State"}, rp \in RateProducts }

SeqsUpTo(S, n) == UNION { [1..k -> S] : k \in 0..n }

\* one-row uploads on both sides of each business size limit
BoundaryTexts ==
    { <<"9","9","9","9","9">>, <<"1","0","0","0","0","0">>,
      <<"9","9","9","9","9","9">>, <<"1","0","0","0","0","0","0">>,
      <<"4","9","9","9","9","9","9">>, <<"5","0","0","0","0","0","0">> }

BoundaryData ==
    { << [amount |-> a, taxRate |-> T_18, state |-> "Home State", product |-> <<>>] >> :
        a \in BoundaryTexts }

\* the two rows of the worked example
ExampleData ==
    << [amount |-> T_1000, taxRate |-> T_18, state |-> "Home State", product |-> <<>>],
       [amount |-> T_2000, taxRate |-> T_18, state |-> "Other", product |-> <<>>] >>

T_5       == <<"5">>
T_12      == <<"1","2">>
T_28      == <<"2","8">>

\* four rows at the rates 5, 12, 18 and 28, the first of the given amount and
\* the others of 1000, all of one state
FourSlabs(first, state) ==
    << [amount |-> first,  taxRate |-> T_5,  state |-> state, product |-> <<>>],
       [amount |-> T_1000, taxRate |-> T_12, state |-> state, product |-> <<>>],
       [amount |-> T_1000, taxRate |-> T_18, state |-> state, product |-> <<>>],
       [amount |-> T_1000, taxRate |-> T_28, state |-> state, product |-> <<>>] >>

\* uploads with more than three tax slabs: tax above and below 15 % of the
\* sales, with and without inter-state rows
SlabData ==
    { FourSlabs(first, state) : first \in {T_1000, T_2000}, state \in {"Home State", "Other"} }

T_neg1000 == <<"-","1","0","0","0">>

\* a sale at 28 % and a return of the same amount at 18 %: the sales sum to 0
\* and the tax does not
ZeroSalesData ==
    << [amount |-> T_1000,    taxRate |-> T_28, state |-> "Other", product |-> <<>>],
       [amount |-> T_neg1000, taxRate |-> T_18, state |-> "Other", product |-> <<>>] >>

InputData ==
    SeqsUpTo(Rows, MaxRows) \cup BoundaryData \cup {ExampleData} \cup SlabData
      \cup {ZeroSalesData}

-----------------------------------------------------------------------------
(* Knowledge base and retrieval *)

\* The words followed in the model.  The content of a document is the
\* sequence of its words that are among these, in the order they occur and
\* lower-cased as the tokenizer of the index leaves them; "refund" occurs in
\* no built-in document.
Vocabulary == {"gst", "tax", "interest", "agricultural", "composition", "refund"}

BuiltInDocuments ==
    << [id |-> "gst_basics_2024",
        content |-> <<"gst", "tax", "tax", "gst", "tax", "composition">>],
       [id |-> "gstr1_deadline_2024", content |-> <<"tax">>],
       [id |-> "gstr3b_deadline_2024", content |-> <<"tax", "tax", "interest">>],
       [id |-> "itc_rules_2024", content |-> <<"tax", "tax", "tax">>],
       [id |-> "new_tax_policies_2024", content |-> <<"gst", "composition">>],
       [id |-> "gst_rates_2024", content |-> <<"gst", "agricultural">>] >>

\* the files of the knowledge-base directory; suffix is the last four
\* characters of the name
KnowledgeFiles ==
    { [name |-> "notes.txt", suffix |-> ".txt", content |-> <<"interest", "gst">>],
      [name |-> "refund.txt", suffix |-> ".txt", content |-> <<"refund", "refund", "tax">>],
      [name |-> "empty.txt", suffix |-> ".txt", content |-> <<>>],
      [name |-> "readme.md", suffix |-> "e.md", content |-> <<"agricultural">>] }

\* directory listings: files of different names in any order
Listings ==
    { l \in SeqsUpTo(KnowledgeFiles, MaxFiles) :
        \A i, j \in 1..Len(l) : i # j => l[i].name # l[j].name }

\* tfidf.addDocument(content, key): the document goes to the end of the index
addDocument(index, content, key) == Append(index, [key |-> key, terms |-> content])

\* gstKnowledgeDocuments.forEach(doc => tfidf.addDocument(doc.content, doc.id))
RECURSIVE AddDocuments(_, _, _)
AddDocuments(index, docs, i) ==
    IF i > Len(docs) THEN index
    ELSE AddDocuments(addDocument(index, docs[i].content, docs[i].id), docs, i + 1)

\* LoadFiles with the push on the documents done for every file of the listing
RECURSIVE LoadFilesPushAll(_, _, _)
LoadFilesPushAll(kb, files, i) ==
    IF i > Len(files) THEN kb
    ELSE LoadFilesPushAll(
           [index |-> IF files[i].suffix = ".txt"
                      THEN addDocument(kb.index, files[i].content, files[i].name)
                      ELSE kb.index,
            docs  |-> Append(kb.docs, [id |-> files[i].name,
                                       content |-> files[i].content])],
           files, i + 1)

\* files.forEach: a .txt file is added to the index and pushed on the
\* documents, any other file is skipped; kb is the pair of the two lists
RECURSIVE LoadFiles(_, _, _)
LoadFiles(kb, files, i) ==
    IF i > Len(files) THEN kb
    ELSE LoadFiles(
           IF files[i].suffix = ".txt"
           THEN [index |-> addDocument(kb.index, files[i].content, files[i].name),
                 docs  |-> Append(kb.docs, [id |-> files[i].name,
                                            content |-> files[i].content])]
           ELSE kb,
           files, i + 1)

\* LoadedKnowledge with the files indexed ahead of the built-in documents
LoadedKnowledgeFilesFirst(index, docs, files) ==
    LET loaded == LoadFiles([index |-> index, docs |-> docs], files, 1)
    IN  [index |-> AddDocuments(loaded.index, docs, 1), docs |-> loaded.docs]

\* initializeKnowledgeBase on a directory with the given listing (a missing
\* directory is the empty listing)
LoadedKnowledge(index, docs, files) ==
    LoadFiles([index |-> AddDocuments(index, docs, 1), docs |-> docs], files, 1)

\* number of occurrences of term in the words of a document
Count(term, terms) == Cardinality({i \in 1..Len(terms) : terms[i] = term})

DocsWithTerm(index, term) ==
    Cardinality({d \in 1..Len(index) : Count(term, index[d].terms) > 0})

\* 1 + ln(N / (1 + df)) in thousandths, rounded, for N = 6 .. 9 documents
\* (row N - 5) and df = 0 .. N (column df + 1)
IdfMilli ==
    << <<2792, 2099, 1693, 1405, 1182, 1000, 846>>,
       <<2946, 2253, 1847, 1560, 1336, 1154, 1000, 866>>,
       <<3079, 2386, 1981, 1693, 1470, 1288, 1134, 1000, 882>>,
       <<3197, 2504, 2099, 1811, 1588, 1405, 1251, 1118, 1000, 895>> >>

idf(index, term) ==
    IdfMilli[Len(index) - Len(BuiltInDocuments) + 1][DocsWithTerm(index, term) + 1]

\* the measure of document d for the words of the query: the sum over the
\* query's words of the word's count in the document times its idf
RECURSIVE MeasureFrom(_, _, _, _)
MeasureFrom(index, terms, d, i) ==
    IF i > Len(terms) THEN 0
    ELSE Count(terms[i], index[d].terms) * idf(index, terms[i])
           + MeasureFrom(index, terms, d, i + 1)

tfidfMeasure(index, terms, d) == MeasureFrom(index, terms, d, 1)

\* Scan with the callback keeping every document whose measure is not negative
RECURSIVE ScanNonNegative(_, _, _)
ScanNonNegative(query, i, results) ==
    IF i > Len(tfidf) THEN results
    ELSE LET measure == tfidfMeasure(tfidf, query, i)
         IN  ScanNonNegative(query, i + 1,
                  IF measure >= 0
                  THEN Append(results, [document  |-> gstKnowledgeDocuments[i],
                                        relevance |-> measure,
                                        id        |-> gstKnowledgeDocuments[i].id])
                  ELSE results)

\* tfidf.tfidfs(query, callback): the callback runs for every document of
\* the index in index order and keeps those with a positive measure, each
\* with the entry of gstKnowledgeDocuments at the same position
RECURSIVE Scan(_, _, _)
Scan(query, i, results) ==
    IF i > Len(tfidf) THEN results
    ELSE LET measure == tfidfMeasure(tfidf, query, i)
         IN  Scan(query, i + 1,
                  IF measure > 0
                  THEN Append(results, [document  |-> gstKnowledgeDocuments[i],
                                        relevance |-> measure,
                                        id        |-> gstKnowledgeDocuments[i].id])
                  ELSE results)

\* results.sort((a, b) => b.relevance - a.relevance): the sort is stable, an
\* entry goes behind the entries that are not less relevant
InsertByRelevance(sorted, r) ==
    LET ahead == Cardinality({k \in 1..Len(sorted) : sorted[k].relevance >= r.relevance})
    IN  SubSeq(sorted, 1, ahead) \o <<r>> \o SubSeq(sorted, ahead + 1, Len(sorted))

RECURSIVE SortFrom(_, _, _)
SortFrom(results, i, sorted) ==
    IF i > Len(results) THEN sorted
    ELSE SortFrom(results, i + 1, InsertByRelevance(sorted, results[i]))

sortByRelevance(results) == SortFrom(results, 1, <<>>)

\* Array.prototype.slice(0, n) for n >= 0
slice(s, n) == SubSeq(s, 1, IF n < Len(s) THEN n ELSE Len(s))

DefaultMaxResults == 3

retrieveRelevantKnowledge(query, maxResults) ==
    slice(sortByRelevance(Scan(query, 1, <<>>)), maxResults)

NoRetrieval == [query |-> <<>>, given |-> FALSE, maxResults |-> 0, results |-> <<>>]

\* the knowledge base of a server started without a knowledge directory
StartedKnowledge ==
    /\ tfidf = LoadedKnowledge(<<>>, BuiltInDocuments, <<>>).index
    /\ gstKnowledgeDocuments = LoadedKnowledge(<<>>, BuiltInDocuments, <<>>).docs
    /\ retrieved = NoRetrieval

-----------------------------------------------------------------------------
(* The aggregation and analysis called directly on one input *)

\* this.compliancePlan = null of the constructor
NullPlan == [by |-> "null"]

NoRead == [handler |-> "none", status |-> 0, body |-> [error |-> "none"]]

IdleServer ==
    /\ genAI = FALSE
    /\ agentPlan = NullPlan
    /\ filings = <<>>
    /\ now = 0
    /\ today = [year |-> 2024, month |-> 10]
    /\ uploads = <<>>
    /\ lastRead = NoRead
    /\ StartedKnowledge

InitCalc ==
    /\ salesData \in InputData
    /\ stage = "start"
    /\ taxCalculation = "none"
    /\ gstCalculation = "none"
    /\ businessAnalysis = "none"
    /\ taxCalculationAgain = "none"
    /\ determinedRate = "none"
    /\ complianceCheck = "none"
    /\ deadlines = "none"
    /\ IdleServer

CallCalculateTaxes ==
    /\ stage = "start"
    /\ taxCalculation' = calculateTaxes(salesData)
    /\ stage' = "calculated"
    /\ UNCHANGED <<salesData, gstCalculation, businessAnalysis, taxCalculationAgain,
                   deadlines, callVars, serverVars>>

CallCalculateGST ==
    /\ stage = "calculated"
    /\ gstCalculation' = calculateGST(salesData)
    /\ stage' = "gst"
    /\ UNCHANGED <<salesData, taxCalculation, businessAnalysis, taxCalculationAgain,
                   deadlines, callVars, serverVars>>

CallAnalyze ==
    /\ stage = "gst"
    /\ businessAnalysis' = analyzeBusinessPatterns(salesData, taxCalculation)
    /\ stage' = "analyzed"
    /\ UNCHANGED <<salesData, taxCalculation, gstCalculation, taxCalculationAgain,
                   deadlines, callVars, serverVars>>

\* CallCalculateTaxesAgain with the totals of the first call kept by the
\* agent and added to
CallCalculateTaxesAgainAccumulating ==
    /\ stage = "analyzed"
    /\ taxCalculationAgain' = Totals(TaxFold(salesData, taxCalculation))
    /\ stage' = "again"
    /\ UNCHANGED <<salesData, taxCalculation, gstCalculation, businessAnalysis,
                   deadlines, callVars, serverVars>>

\* calculateTaxes called a second time on the same rows, after the calls of
\* calculateGST and analyzeBusinessPatterns
CallCalculateTaxesAgain ==
    /\ stage = "analyzed"
    /\ taxCalculationAgain' = calculateTaxes(salesData)
    /\ stage' = "again"
    /\ UNCHANGED <<salesData, taxCalculation, gstCalculation, businessAnalysis,
                   deadlines, callVars, serverVars>>

NextCalc ==
    CallCalculateTaxes \/ CallCalculateGST \/ CallAnalyze \/ CallCalculateTaxesAgain

SpecCalc == InitCalc /\ [][NextCalc]_vars

Calculated == stage \in {"calculated", "gst", "analyzed", "again"}
GstCalculated == stage \in {"gst", "analyzed", "again"}
Analyzed == stage \in {"analyzed", "again"}

-----------------------------------------------------------------------------
(* The knowledge base loaded at start-up and queried *)

Queries == SeqsUpTo(Vocabulary, MaxQueryTerms)

\* the module is loaded: the index is empty and the array holds the
\* built-in documents; no request is served
InitKnow ==
    /\ tfidf = <<>>
    /\ gstKnowledgeDocuments = BuiltInDocuments
    /\ retrieved = NoRetrieval
    /\ stage = "load"
    /\ salesData = <<>>
    /\ taxCalculation = "none"
    /\ gstCalculation = "none"
    /\ businessAnalysis = "none"
    /\ taxCalculationAgain = "none"
    /\ determinedRate = "none"
    /\ complianceCheck = "none"
    /\ deadlines = "none"
    /\ genAI = FALSE
    /\ agentPlan = NullPlan
    /\ filings = <<>>
    /\ now = 0
    /\ today = [year |-> 2024, month |-> 10]
    /\ uploads = <<>>
    /\ lastRead = NoRead

initializeKnowledgeBase(files) ==
    /\ stage = "load"
    /\ LET kb == LoadedKnowledge(tfidf, gstKnowledgeDocuments, files)
       IN  /\ tfidf' = kb.index
           /\ gstKnowledgeDocuments' = kb.docs
    /\ stage' = "ready"
    /\ UNCHANGED <<salesData, taxCalculation, gstCalculation, businessAnalysis,
                   taxCalculationAgain, deadlines, callVars, retrieved,
                   genAI, agentPlan, filings, now, today, uploads, lastRead>>

\* Retrieve cutting the documents array itself down to maxResults entries
RetrieveSplicing(query, maxResults) ==
    /\ stage = "ready"
    /\ retrieved = NoRetrieval
    /\ retrieved' = [query |-> query, given |-> TRUE, maxResults |-> maxResults,
                     results |-> retrieveRelevantKnowledge(query, maxResults)]
    /\ gstKnowledgeDocuments' = slice(gstKnowledgeDocuments, maxResults)
    /\ UNCHANGED <<calcVars, tfidf,
                   genAI, agentPlan, filings, now, today, uploads, lastRead>>

\* retrieveRelevantKnowledge(query, maxResults).  A call reads the index and
\* the documents and writes neither, so the calls of a run do not depend on
\* one another and one call is followed per run
Retrieve(query, maxResults) ==
    /\ stage = "ready"
    /\ retrieved = NoRetrieval
    /\ retrieved' = [query |-> query, given |-> TRUE, maxResults |-> maxResults,
                     results |-> retrieveRelevantKnowledge(query, maxResults)]
    /\ UNCHANGED <<calcVars, tfidf, gstKnowledgeDocuments,
                   genAI, agentPlan, filings, now, today, uploads, lastRead>>

\* retrieveRelevantKnowledge(query): maxResults takes its default
RetrieveDefault(query) ==
    /\ stage = "ready"
    /\ retrieved = NoRetrieval
    /\ retrieved' = [query |-> query, given |-> FALSE, maxResults |-> DefaultMaxResults,
                     results |-> retrieveRelevantKnowledge(query, DefaultMaxResults)]
    /\ UNCHANGED <<calcVars, tfidf, gstKnowledgeDocuments,
                   genAI, agentPlan, filings, now, today, uploads, lastRead>>

NextKnow ==
    \/ \E files \in Listings : initializeKnowledgeBase(files)
    \/ \E query \in Queries, maxResults \in 0..(DefaultMaxResults + 1) :
         Retrieve(query, maxResults)
    \/ \E query \in Queries : RetrieveDefault(query)

SpecKnow == InitKnow /\ [][NextKnow]_vars

-----------------------------------------------------------------------------
(* Compliance check, plan and documents *)

\* calculateDeadlines with the year of the current date kept
calculateDeadlinesSameYear(date) ==
    LET nextMonth == [year |-> date.year, month |-> (date.month + 1) % 12]
    IN  [gstr1   |-> [year |-> nextMonth.year, month |-> nextMonth.month, day |-> 10],
         gstr3b  |-> [year |-> nextMonth.year, month |-> nextMonth.month, day |-> 20],
         payment |-> [year |-> nextMonth.year, month |-> nextMonth.month, day |-> 20]]

\* new Date(year, month + 1, 1): a month past December rolls into January of
\* the next year
calculateDeadlines(date) ==
    LET nextMonth == IF date.month + 1 > 11
                     THEN [year |-> date.year + 1, month |-> date.month + 1 - 12]
                     ELSE [year |-> date.year, month |-> date.month + 1]
    IN  [gstr1   |-> [year |-> nextMonth.year, month |-> nextMonth.month, day |-> 10],
         gstr3b  |-> [year |-> nextMonth.year, month |-> nextMonth.month, day |-> 20],
         payment |-> [year |-> nextMonth.year, month |-> nextMonth.month, day |-> 20]]

\* checkCompliance offering the Composition Scheme to Small businesses too
checkComplianceSchemeForSmall(analysis, date) ==
    [applicableReturns |-> <<"GSTR-1", "GSTR-3B">>,
     deadlines         |-> calculateDeadlines(date),
     itcEligibility    |-> analysis.complianceRisk = "Low",
     specialSchemes    |-> IF analysis.businessSize \in {"Micro", "Small"}
                           THEN <<"Composition Scheme">> ELSE <<>>,
     riskAreas         |-> IF analysis.complianceRisk # "Low"
                           THEN <<"Interstate Sales", "Multiple Tax Rates">> ELSE <<>>]

\* checkCompliance granting input tax credit whatever the risk
checkComplianceItcAlways(analysis, date) ==
    [applicableReturns |-> <<"GSTR-1", "GSTR-3B">>,
     deadlines         |-> calculateDeadlines(date),
     itcEligibility    |-> TRUE,
     specialSchemes    |-> IF analysis.businessSize = "Micro"
                           THEN <<"Composition Scheme">> ELSE <<>>,
     riskAreas         |-> IF analysis.complianceRisk # "Low"
                           THEN <<"Interstate Sales", "Multiple Tax Rates">> ELSE <<>>]

checkCompliance(analysis, date) ==
    [applicableReturns |-> <<"GSTR-1", "GSTR-3B">>,
     deadlines         |-> calculateDeadlines(date),
     itcEligibility    |-> analysis.complianceRisk = "Low",
     specialSchemes    |-> IF analysis.businessSize = "Micro"
                           THEN <<"Composition Scheme">> ELSE <<>>,
     riskAreas         |-> IF analysis.complianceRisk # "Low"
                           THEN <<"Interstate Sales", "Multiple Tax Rates">> ELSE <<>>]

\* A plan is known by what its text is made from.  The plan of
\* generateCompliancePlan when model.generateContent succeeds: the answer to
\* the prompt, which names the size, the risk and the risk areas
GeneratedPlan(analysis, check) ==
    [by |-> "generator", businessSize |-> analysis.businessSize,
     complianceRisk |-> analysis.complianceRisk, riskAreas |-> check.riskAreas]

\* the template returned when there is no generator or its call failed: it
\* names the size, the three deadlines and the special schemes
FallbackPlan(analysis, check) ==
    [by |-> "template", businessSize |-> analysis.businessSize,
     deadlines |-> check.deadlines, specialSchemes |-> check.specialSchemes]

generateTaxSummary(tc) ==
    [type |-> "Tax Summary",
     content |-> [totalSales |-> tc.totalSales, cgst |-> tc.cgst, sgst |-> tc.sgst,
                  igst |-> tc.igst, totalTax |-> tc.totalTax]]

generateComplianceChecklist(check) ==
    [type |-> "Compliance Checklist", content |-> check.deadlines]

\* generatePaymentInstructions: the text, generated or the fixed steps, is
\* known only by the amount it is written for
PaymentInstructions(taxAmount, generated) ==
    [type |-> "Payment Instructions", content |-> [taxAmount |-> taxAmount]]

prepareComplianceDocuments(tc, check, generated) ==
    << generateTaxSummary(tc),
       generateComplianceChecklist(check),
       PaymentInstructions(tc.totalTax, generated) >>

-----------------------------------------------------------------------------
(* The server: upload and read handlers on the shared agent and store *)

\* the CSV files uploaded in the model
LargeData ==
    << [amount |-> <<"5","0","0","0","0","0","0">>, taxRate |-> T_18,
        state |-> "Home State", product |-> <<>>] >>
Files == {<<>>, ExampleData, LargeData}

\* a local of the handler that has not been assigned
Unset == [unset |-> TRUE]

NoLocals ==
    [data |-> <<>>, taxCalculation |-> Unset, businessAnalysis |-> Unset,
     complianceCheck |-> Unset]

InitServer ==
    /\ genAI \in BOOLEAN
    /\ agentPlan = NullPlan
    /\ filings = <<>>
    /\ now = 0
    /\ today = [year |-> 2024, month |-> 10]
    /\ uploads = <<>>
    /\ lastRead = NoRead
    /\ StartedKnowledge
    /\ salesData = <<>>
    /\ stage = "idle"
    /\ taxCalculation = "none"
    /\ gstCalculation = "none"
    /\ businessAnalysis = "none"
    /\ taxCalculationAgain = "none"
    /\ determinedRate = "none"
    /\ complianceCheck = "none"
    /\ deadlines = "none"

\* no answer has been sent yet
NoResponse == [status |-> 0, success |-> FALSE]

Answer(u, response) ==
    [uploads EXCEPT ![u].pc = "done", ![u].response = response]

Failure(status, error) == [status |-> status, success |-> FALSE, error |-> error]

\* POST /api/upload up to the first await: the two 400 answers, or parseCSV
\* started on the uploaded file
UploadRequest(kind, data) ==
    /\ Len(uploads) < MaxUploads
    /\ uploads' = Append(uploads,
          IF kind = "none"
          THEN [pc |-> "done", locals |-> NoLocals,
                response |-> Failure(400, "No file uploaded")]
          ELSE IF kind = "excel"
          THEN [pc |-> "done", locals |-> NoLocals,
                response |-> Failure(400, "Excel support coming soon. Please upload a CSV file.")]
          ELSE [pc |-> "parseCSV", locals |-> [NoLocals EXCEPT !.data = data],
                response |-> NoResponse])
    /\ lastRead' = NoRead
    /\ UNCHANGED <<calcVars, knowVars, genAI, agentPlan, filings, now, today>>

\* the stream of parseCSV fails: the handler's catch answers 500
ParseFailed(u) ==
    /\ uploads[u].pc = "parseCSV"
    /\ uploads' = Answer(u, Failure(500, "Failed to process file"))
    /\ lastRead' = NoRead
    /\ UNCHANGED <<calcVars, knowVars, genAI, agentPlan, filings, now, today>>

\* the filing record built after processBusinessData returned, and the answer
\* sent for it; plan is this.compliancePlan as read by the return statement
Filing(u, locals, plan, documents) ==
    [id |-> now, timestamp |-> now, fileName |-> u, salesData |-> locals.data,
     processingResult |->
        [taxCalculation   |-> locals.taxCalculation,
         businessAnalysis |-> locals.businessAnalysis,
         complianceCheck  |-> locals.complianceCheck,
         compliancePlan   |-> plan,
         documents        |-> documents]]

Success(filing) ==
    [status |-> 200, success |-> TRUE,
     filing |-> [id |-> filing.id, timestamp |-> filing.timestamp,
                 fileName |-> filing.fileName,
                 summary |-> filing.processingResult.taxCalculation,
                 compliancePlan |-> filing.processingResult.compliancePlan,
                 documents |-> filing.processingResult.documents]]

\* ParseDone with an analysis that does not throw on a file of no rows
ParseDoneSeeded(u) ==
    /\ uploads[u].pc = "parseCSV"
    /\ LET data     == uploads[u].locals.data
           tc       == calculateTaxes(data)
           analysis == analyzeBusinessPatternsSeeded(data, tc)
       IN  IF analysis.threw
           THEN /\ uploads' = Answer(u, Failure(500, "Failed to process file"))
                /\ UNCHANGED <<agentPlan, filings>>
           ELSE LET check  == checkCompliance(analysis.value, today)
                    locals == [data |-> data, taxCalculation |-> tc,
                               businessAnalysis |-> analysis.value,
                               complianceCheck |-> check]
                IN  IF genAI
                    THEN /\ uploads' = [uploads EXCEPT ![u].pc = "generatePlan",
                                                       ![u].locals = locals]
                         /\ UNCHANGED <<agentPlan, filings>>
                    ELSE LET plan   == FallbackPlan(analysis.value, check)
                             filing == Filing(u, locals, plan,
                                          prepareComplianceDocuments(tc, check, FALSE))
                         IN  /\ agentPlan' = plan
                             /\ filings' = Append(filings, filing)
                             /\ uploads' = [Answer(u, Success(filing))
                                               EXCEPT ![u].locals = locals]
    /\ lastRead' = NoRead
    /\ UNCHANGED <<calcVars, knowVars, genAI, now, today>>

\* parseCSV resolved: processBusinessData runs calculateTaxes,
\* analyzeBusinessPatterns and checkCompliance.  An analysis that throws is
\* answered 500.  With a generator the handler then waits for the plan text;
\* without one nothing waits on I/O and the template plan, the documents, the
\* filing and the answer follow in the same turn of the event loop.
ParseDone(u) ==
    /\ uploads[u].pc = "parseCSV"
    /\ LET data     == uploads[u].locals.data
           tc       == calculateTaxes(data)
           analysis == analyzeBusinessPatterns(data, tc)
       IN  IF analysis.threw
           THEN /\ uploads' = Answer(u, Failure(500, "Failed to process file"))
                /\ UNCHANGED <<agentPlan, filings>>
           ELSE LET check  == checkCompliance(analysis.value, today)
                    locals == [data |-> data, taxCalculation |-> tc,
                               businessAnalysis |-> analysis.value,
                               complianceCheck |-> check]
                IN  IF genAI
                    THEN /\ uploads' = [uploads EXCEPT ![u].pc = "generatePlan",
                                                       ![u].locals = locals]
                         /\ UNCHANGED <<agentPlan, filings>>
                    ELSE LET plan   == FallbackPlan(analysis.value, check)
                             filing == Filing(u, locals, plan,
                                          prepareComplianceDocuments(tc, check, FALSE))
                         IN  /\ agentPlan' = plan
                             /\ filings' = Append(filings, filing)
                             /\ uploads' = [Answer(u, Success(filing))
                                               EXCEPT ![u].locals = locals]
    /\ lastRead' = NoRead
    /\ UNCHANGED <<calcVars, knowVars, genAI, now, today>>

\* the generator answered (or failed) for the plan: the plan is stored in the
\* agent's compliancePlan field, the summary and the checklist are built and
\* the handler waits for the payment instructions
PlanReturned(u, answered) ==
    /\ uploads[u].pc = "generatePlan"
    /\ LET l == uploads[u].locals
       IN  agentPlan' = IF answered
                        THEN GeneratedPlan(l.businessAnalysis, l.complianceCheck)
                        ELSE FallbackPlan(l.businessAnalysis, l.complianceCheck)
    /\ uploads' = [uploads EXCEPT ![u].pc = "generatePayment"]
    /\ lastRead' = NoRead
    /\ UNCHANGED <<calcVars, knowVars, genAI, filings, now, today>>

\* PaymentReturned with the store assigned the new filing alone
PaymentReturnedOverwrite(u, answered) ==
    /\ uploads[u].pc = "generatePayment"
    /\ LET l      == uploads[u].locals
           filing == Filing(u, l, agentPlan,
                        prepareComplianceDocuments(l.taxCalculation,
                                                   l.complianceCheck, answered))
       IN  /\ filings' = <<filing>>
           /\ uploads' = Answer(u, Success(filing))
    /\ lastRead' = NoRead
    /\ UNCHANGED <<calcVars, knowVars, genAI, agentPlan, now, today>>

\* the generator answered (or failed) for the payment instructions:
\* processBusinessData returns, reading this.compliancePlan; the handler
\* builds the filing with id Date.now(), appends it and answers
PaymentReturned(u, answered) ==
    /\ uploads[u].pc = "generatePayment"
    /\ LET l      == uploads[u].locals
           filing == Filing(u, l, agentPlan,
                        prepareComplianceDocuments(l.taxCalculation,
                                                   l.complianceCheck, answered))
       IN  /\ filings' = Append(filings, filing)
           /\ uploads' = Answer(u, Success(filing))
    /\ lastRead' = NoRead
    /\ UNCHANGED <<calcVars, knowVars, genAI, agentPlan, now, today>>

\* the clock moves on to the next millisecond.  Only the milliseconds in
\* which a filing was stamped are counted: however long the clock runs
\* between two filings, the program sees no more than that their ids differ
Tick ==
    /\ filings # <<>>
    /\ now = filings[Len(filings)].id
    /\ now' = now + 1
    /\ lastRead' = NoRead
    /\ UNCHANGED <<calcVars, knowVars, genAI, agentPlan, filings, today, uploads>>

\* userData.filings.find(f => f.id === filingId): the first filing with the id
HasFiling(id) == \E i \in 1..Len(filings) : filings[i].id = id
FindFiling(id) ==
    filings[CHOOSE i \in 1..Len(filings) :
               /\ filings[i].id = id
               /\ \A j \in 1..(i - 1) : filings[j].id # id]

\* GET /api/filing/:filingId
GetFiling(id) ==
    /\ lastRead' = IF HasFiling(id)
                   THEN [handler |-> "filing", id |-> id, status |-> 200,
                         body |-> [filing |-> FindFiling(id)]]
                   ELSE [handler |-> "filing", id |-> id, status |-> 404,
                         body |-> [error |-> "Filing not found"]]
    /\ UNCHANGED <<calcVars, knowVars, genAI, agentPlan, filings, now, today, uploads>>

\* GetReport answering an id that no filing has with an empty report
GetReportAlways(id) ==
    /\ lastRead' = IF HasFiling(id)
                   THEN [handler |-> "report", id |-> id, status |-> 200,
                         body |-> [calc |-> generateTaxSummary(
                                       FindFiling(id).processingResult.taxCalculation).content,
                                   compliancePlan |->
                                       FindFiling(id).processingResult.compliancePlan]]
                   ELSE [handler |-> "report", id |-> id, status |-> 200,
                         body |-> [calc |-> generateTaxSummary(calculateTaxes(<<>>)).content,
                                   compliancePlan |-> NullPlan]]
    /\ UNCHANGED <<calcVars, knowVars, genAI, agentPlan, filings, now, today, uploads>>

\* GET /api/report/:filingId: the PDF shows the totals and the plan
GetReport(id) ==
    /\ lastRead' = IF HasFiling(id)
                   THEN [handler |-> "report", id |-> id, status |-> 200,
                         body |-> [calc |-> generateTaxSummary(
                                       FindFiling(id).processingResult.taxCalculation).content,
                                   compliancePlan |->
                                       FindFiling(id).processingResult.compliancePlan]]
                   ELSE [handler |-> "report", id |-> id, status |-> 404,
                         body |-> [error |-> "Filing not found"]]
    /\ UNCHANGED <<calcVars, knowVars, genAI, agentPlan, filings, now, today, uploads>>

\* GET /api/filings
GetFilings ==
    /\ lastRead' = [handler |-> "filings", status |-> 200,
                    body |-> [filings |-> [i \in 1..Len(filings) |->
                                [id |-> filings[i].id, timestamp |-> filings[i].timestamp,
                                 fileName |-> filings[i].fileName,
                                 summary |-> filings[i].processingResult.taxCalculation]]]]
    /\ UNCHANGED <<calcVars, knowVars, genAI, agentPlan, filings, now, today, uploads>>

\* the ids asked for: every id a filing can have, and one that none has
FilingIds == 0..MaxUploads

Init == InitServer

Next ==
    \/ \E kind \in {"none", "excel", "csv"}, data \in Files : UploadRequest(kind, data)
    \/ \E u \in 1..Len(uploads) : ParseFailed(u)
    \/ \E u \in 1..Len(uploads) : ParseDone(u)
    \/ \E u \in 1..Len(uploads), answered \in BOOLEAN : PlanReturned(u, answered)
    \/ \E u \in 1..Len(uploads), answered \in BOOLEAN : PaymentReturned(u, answered)
    \/ Tick
    \/ \E id \in FilingIds : GetFiling(id)
    \/ \E id \in FilingIds : GetReport(id)
    \/ GetFilings

Spec == Init /\ [][Next]_vars

-----------------------------------------------------------------------------
(* Properties of the aggregation and of the analysis *)

\* C1: the totalTax returned by calculateTaxes, and by the older
\* calculateGST, equals cgst + sgst + igst of the same result.
TotalTaxIsSum ==
    /\ Calculated =>
         taxCalculation.totalTax
           = taxCalculation.cgst + taxCalculation.sgst + taxCalculation.igst
    /\ GstCalculated =>
         gstCalculation.totalTax
           = gstCalculation.cgst + gstCalculation.sgst + gstCalculation.igst

TotalTaxIsSumWitness ==
    /\ GstCalculated
    /\ Len(salesData) = 2
    /\ taxCalculation.cgst > 0 /\ taxCalculation.sgst > 0 /\ taxCalculation.igst > 0
    /\ gstCalculation.cgst > 0 /\ gstCalculation.igst > 0

\* what row i adds to the liabilities: the aggregate of the first i rows less
\* the aggregate of the first i - 1 rows
Contribution(i) ==
    LET bef == calculateTaxes(SubSeq(salesData, 1, i - 1))
        aft == IF i = Len(salesData) THEN taxCalculation
               ELSE calculateTaxes(SubSeq(salesData, 1, i))
    IN  [cgst |-> aft.cgst - bef.cgst,
         sgst |-> aft.sgst - bef.sgst,
         igst |-> aft.igst - bef.igst]

\* the tax of row i, as a numerator over TaxUnit
RowTax(i) == 2 * SaleAmount(salesData[i]) * SaleTaxRate(salesData[i])

\* C2: a row whose state is exactly "Home State" adds its tax to cgst and
\* sgst and nothing to igst; a row with any other state, a missing one
\* included, adds its tax to igst and nothing to cgst or sgst.
OneSidePerRecord ==
    Calculated =>
      \A i \in 1..Len(salesData) :
        IF salesData[i].state = "Home State"
        THEN /\ Contribution(i).igst = 0
             /\ Contribution(i).cgst = Contribution(i).sgst
             /\ Contribution(i).cgst + Contribution(i).sgst = RowTax(i)
        ELSE /\ Contribution(i).cgst = 0
             /\ Contribution(i).sgst = 0
             /\ Contribution(i).igst = RowTax(i)

OneSidePerRecordWitness ==
    /\ Calculated
    /\ Len(salesData) = 2
    /\ salesData[1].state = "home state" /\ RowTax(1) > 0
    /\ salesData[2].state = "" /\ RowTax(2) > 0
    /\ taxCalculation.igst = RowTax(1) + RowTax(2)
    /\ taxCalculation.cgst = 0

RECURSIVE SumOver(_, _)
SumOver(f, S) ==
    IF S = {} THEN 0
    ELSE LET x == CHOOSE y \in S : TRUE IN f[x] + SumOver(f, S \ {x})

Idx == 1..Len(salesData)
RefAmount == [i \in Idx |-> SaleAmount(salesData[i])]
RefHalfTax == [i \in Idx |-> SaleAmount(salesData[i]) * SaleTaxRate(salesData[i])]
HomeIdx == {i \in Idx : SaleState(salesData[i]) = "Home State"}

\* m holds exactly the keys  keyOf[i]  and under each the amounts of its rows
MapIsSumBy(m, keyOf) ==
    /\ {m[j].key : j \in 1..Len(m)} = {keyOf[i] : i \in Idx}
    /\ \A j \in 1..Len(m) :
         /\ m[j].val = SumOver(RefAmount, {i \in Idx : keyOf[i] = m[j].key})
         /\ \A k \in 1..Len(m) : m[k].key = m[j].key => k = j

EmptyInputAllZero ==
    Calculated /\ salesData = <<>> =>
      taxCalculation = [totalSales |-> 0, cgst |-> 0, sgst |-> 0, igst |-> 0,
                        totalTax |-> 0, salesByState |-> <<>>, salesByTaxSlab |-> <<>>]

EmptyInputAllZeroWitness ==
    Calculated /\ salesData = <<>> /\ taxCalculation.totalTax = 0

\* C5: analyzeBusinessPatterns of no rows (and of their aggregate) ends with
\* an error thrown to its caller, and whenever it returns an analysis the
\* averageTransaction of it is a finite number.
EmptyAnalysisThrows ==
    Analyzed =>
      /\ salesData = <<>> => businessAnalysis.threw
      /\ ~businessAnalysis.threw =>
           businessAnalysis.value.averageTransaction.kind = "finite"

EmptyAnalysisThrowsWitness ==
    Analyzed /\ salesData = <<>> /\ businessAnalysis.threw

\* C6: businessSize is Micro below 100,000, Small from 100,000 below
\* 1,000,000, Medium from 1,000,000 below 5,000,000 and Large from 5,000,000.
SizeByThresholds ==
    Analyzed /\ ~businessAnalysis.threw =>
      LET ts   == taxCalculation.totalSales
          size == businessAnalysis.value.businessSize
      IN  /\ size = "Micro"  <=> ts < 100000
          /\ size = "Small"  <=> (100000 <= ts /\ ts < 1000000)
          /\ size = "Medium" <=> (1000000 <= ts /\ ts < 5000000)
          /\ size = "Large"  <=> 5000000 <= ts
          /\ ts = 99999 => size = "Micro"
          /\ ts = 100000 => size = "Small"
          /\ ts = 999999 => size = "Small"
          /\ ts = 1000000 => size = "Medium"
          /\ ts = 4999999 => size = "Medium"
          /\ ts = 5000000 => size = "Large"

SizeByThresholdsWitness ==
    /\ Analyzed
    /\ ~businessAnalysis.threw
    /\ taxCalculation.totalSales = 1000000
    /\ businessAnalysis.value.businessSize = "Medium"

\* C7: totalSales, cgst, sgst, igst and totalTax returned by calculateTaxes
\* are non-negative whatever the amount and taxRate texts of the rows are.
TotalsNonNegative ==
    Calculated =>
      /\ taxCalculation.totalSales >= 0
      /\ taxCalculation.cgst >= 0
      /\ taxCalculation.sgst >= 0
      /\ taxCalculation.igst >= 0
      /\ taxCalculation.totalTax >= 0

-----------------------------------------------------------------------------
(* Properties of the server *)

Succeeded(u) == uploads[u].pc = "done" /\ uploads[u].response.success

\* C8: the compliancePlan answered for an upload is the plan made from that
\* upload's own business analysis and compliance check, by the generator or
\* from the template, whatever other uploads are in progress.
PlanIsOwn ==
    \A u \in 1..Len(uploads) :
      Succeeded(u) =>
        LET l == uploads[u].locals
        IN  uploads[u].response.filing.compliancePlan
              \in {GeneratedPlan(l.businessAnalysis, l.complianceCheck),
                   FallbackPlan(l.businessAnalysis, l.complianceCheck)}

\* C9: no two filings of the store have the same id, and the ids increase
\* strictly in the order the filings were appended.
IdsStrictlyIncreasing ==
    \A i, j \in 1..Len(filings) : i < j => filings[i].id < filings[j].id

FilingsOf(u) == {i \in 1..Len(filings) : filings[i].fileName = u}

SuccessHasOneFiling ==
    \A u \in 1..Len(uploads) : Succeeded(u) => Cardinality(FilingsOf(u)) = 1

\* a step keeps every stored filing in its place, appends at most the one
\* filing of an upload answered with success in that step, and leaves the
\* store alone when it runs a read handler
AppendOnlyStep ==
    /\ Len(filings') >= Len(filings)
    /\ SubSeq(filings', 1, Len(filings)) = filings
    /\ filings' # filings =>
         /\ Len(filings') = Len(filings) + 1
         /\ \E u \in 1..Len(uploads) :
              /\ ~Succeeded(u)
              /\ uploads'[u].pc = "done" /\ uploads'[u].response.success
              /\ filings'[Len(filings')].fileName = u
    /\ lastRead'.handler \in {"filing", "report", "filings"} => filings' = filings

\* C10: the store is append-only: every upload answered with success has
\* exactly one filing in it, no filing is removed or replaced, and the read
\* handlers leave it unchanged.
StoreAppendOnly == []SuccessHasOneFiling /\ [][AppendOnlyStep]_vars

StoreAppendOnlyWitness ==
    /\ Len(filings) = 2
    /\ Succeeded(1) /\ Succeeded(2)
    /\ filings[1].fileName = 2 /\ filings[2].fileName = 1
    /\ lastRead.handler = "filing" /\ lastRead.status = 200

-----------------------------------------------------------------------------
(* Progress of an upload *)

\* What the event loop guarantees: parseCSV reads a local file, so its stream
\* ends or fails and the handler is resumed.  Nothing in the program makes
\* model.generateContent settle: the two awaits on it (generateCompliancePlan,
\* generatePaymentInstructions) have no timer beside them, so the steps
\* PlanReturned and PaymentReturned are left without a fairness condition.
SpecLive ==
    /\ Init
    /\ [][Next]_vars
    /\ WF_vars(\E u \in 1..Len(uploads) : ParseFailed(u) \/ ParseDone(u))

\* upload u is inside processBusinessData, at one of its awaits
InProcessBusinessData(u) ==
    /\ u <= Len(uploads)
    /\ uploads[u].pc \in {"generatePlan", "generatePayment"}

Responded(u) == u <= Len(uploads) /\ uploads[u].pc = "done"

\* C11: every upload that reaches processBusinessData is eventually answered,
\* also when the text generator never answers.
UploadEventuallyAnswered ==
    \A u \in 1..MaxUploads : InProcessBusinessData(u) ~> Responded(u)


-----------------------------------------------------------------------------
(* The plan returned without the generator *)

\* the step in which generateCompliancePlan returns for upload u: inside
\* ParseDone when there is no generator, PlanReturned when there is one
PlanMadeFor(u) ==
    \/ /\ uploads[u].pc = "parseCSV"
       /\ uploads'[u].pc = "done"
       /\ uploads'[u].response.success
    \/ /\ uploads[u].pc = "generatePlan"
       /\ uploads'[u].pc = "generatePayment"

\* the plan names the three deadlines of the check and its risk areas
NamesDeadlinesAndRisks(plan, check) ==
    /\ "deadlines" \in DOMAIN plan
    /\ plan.deadlines.gstr1 = check.deadlines.gstr1
    /\ plan.deadlines.gstr3b = check.deadlines.gstr3b
    /\ plan.deadlines.payment = check.deadlines.payment
    /\ check.riskAreas # <<>> =>
         /\ "riskAreas" \in DOMAIN plan
         /\ plan.riskAreas = check.riskAreas

FallbackPlanStep ==
    \A u \in 1..Len(uploads) :
      /\ uploads[u].pc = "generatePlan" /\ uploads'[u].pc # "generatePlan"
           => uploads'[u].pc = "generatePayment"
      /\ PlanMadeFor(u) /\ agentPlan'.by = "template" =>
           /\ agentPlan' # NullPlan
           /\ NamesDeadlinesAndRisks(agentPlan', uploads'[u].locals.complianceCheck)

\* C12: without a generator, or when its call fails, generateCompliancePlan
\* returns to its caller a template plan that is not empty and names the
\* GSTR-1, GSTR-3B and payment deadlines and the risk flags of the check.
FallbackNamesDeadlinesAndRisks == [][FallbackPlanStep]_vars


-----------------------------------------------------------------------------
(* Properties of the retrieval *)

Called == stage = "ready" /\ retrieved # NoRetrieval

\* the positions of the index whose document has a positive measure for the
\* query of the last call
Matching == {d \in 1..Len(tfidf) : tfidfMeasure(tfidf, retrieved.query, d) > 0}

\* C13: retrieveRelevantKnowledge returns at most maxResults entries, 3 when
\* maxResults is not given, in non-increasing order of relevance, each of a
\* document whose measure is strictly positive; a document with measure 0
\* is not returned even when fewer than maxResults documents match.
RetrievalBoundedSortedPositive ==
    Called =>
      LET r == retrieved.results
      IN  /\ Len(r) <= retrieved.maxResults
          /\ ~retrieved.given => Len(r) <= 3
          /\ \A i, j \in 1..Len(r) : i < j => r[i].relevance >= r[j].relevance
          /\ \A i \in 1..Len(r) :
               /\ r[i].relevance > 0
               /\ \E d \in Matching :
                    /\ r[i].document = gstKnowledgeDocuments[d]
                    /\ r[i].relevance = tfidfMeasure(tfidf, retrieved.query, d)
          /\ \A i, j \in 1..Len(r) : i # j => r[i].id # r[j].id
          /\ Cardinality(Matching) < retrieved.maxResults => Len(r) = Cardinality(Matching)

RetrievalBoundedSortedPositiveWitness ==
    /\ Called
    /\ retrieved.query = <<"tax", "interest">>
    /\ ~retrieved.given
    /\ Len(retrieved.results) = 3
    /\ Cardinality(Matching) > 3
    /\ Cardinality(Matching) < Len(tfidf)
    /\ retrieved.results[1].id = "gstr3b_deadline_2024"
    /\ retrieved.results[1].relevance > retrieved.results[2].relevance
    /\ retrieved.results[2].relevance = retrieved.results[3].relevance

\* the documents of the corpus that hold the word
Holders(term) ==
    {d \in 1..Len(gstKnowledgeDocuments) :
        Count(term, gstKnowledgeDocuments[d].content) > 0}

\* C14: after start-up, a query of one word that occurs in exactly one
\* document of the corpus returns that document first, with a positive
\* relevance, and a query of one word that occurs in no document returns
\* the empty list.
SingleTermRetrieval ==
    Called /\ Len(retrieved.query) = 1 =>
      LET holders == Holders(retrieved.query[1])
          r       == retrieved.results
      IN  /\ Cardinality(holders) = 1 /\ retrieved.maxResults >= 1 =>
                /\ r # <<>>
                /\ \A d \in holders : r[1].document = gstKnowledgeDocuments[d]
                /\ r[1].relevance > 0
          /\ holders = {} => r = <<>>

SingleTermRetrievalWitness ==
    /\ Called
    /\ retrieved.query = <<"refund">>
    /\ Len(gstKnowledgeDocuments) = 8
    /\ Len(retrieved.results) = 1
    /\ retrieved.results[1].id = "refund.txt"
    /\ retrieved.results[1].relevance > 0


-----------------------------------------------------------------------------
(* calculateDeadlines called on every day of two years *)

IsLeap(year) == (year % 4 = 0 /\ year % 100 # 0) \/ year % 400 = 0

\* days of a month, months counted from 0 as getMonth() does
DaysIn(year, month) ==
    IF month = 1 THEN (IF IsLeap(year) THEN 29 ELSE 28)
    ELSE IF month \in {3, 5, 8, 10} THEN 30 ELSE 31

Dates ==
    { [year |-> y, month |-> m, day |-> d] :
        y \in {2024, 2025}, m \in 0..11, d \in 1..31 }

InitDeadlines ==
    /\ today \in {date \in Dates : date.day <= DaysIn(date.year, date.month)}
    /\ stage = "today"
    /\ deadlines = "none"
    /\ salesData = <<>>
    /\ taxCalculation = "none"
    /\ gstCalculation = "none"
    /\ businessAnalysis = "none"
    /\ taxCalculationAgain = "none"
    /\ determinedRate = "none"
    /\ complianceCheck = "none"
    /\ genAI = FALSE
    /\ agentPlan = NullPlan
    /\ filings = <<>>
    /\ now = 0
    /\ uploads = <<>>
    /\ lastRead = NoRead
    /\ StartedKnowledge

CallCalculateDeadlines ==
    /\ stage = "today"
    /\ deadlines' = calculateDeadlines(today)
    /\ stage' = "deadlines"
    /\ UNCHANGED <<salesData, taxCalculation, gstCalculation, businessAnalysis,
                   taxCalculationAgain, callVars, serverVars>>

NextDeadlines == CallCalculateDeadlines

SpecDeadlines == InitDeadlines /\ [][NextDeadlines]_vars

\* months since year 0 of a date
MonthNumber(date) == date.year * 12 + date.month

\* C15: for every current date calculateDeadlines returns gstr1 on day 10
\* and gstr3b and payment on day 20 of the calendar month after the current
\* one; in December that is January of the next year.
DeadlinesInFollowingMonth ==
    stage = "deadlines" =>
      /\ deadlines.gstr1.day = 10
      /\ deadlines.gstr3b.day = 20
      /\ deadlines.payment.day = 20
      /\ \A k \in {"gstr1", "gstr3b", "payment"} :
           /\ deadlines[k].month \in 0..11
           /\ MonthNumber(deadlines[k]) = MonthNumber(today) + 1
      /\ today.month = 11 =>
           /\ deadlines.gstr1.month = 0
           /\ deadlines.gstr1.year = today.year + 1

DeadlinesInFollowingMonthWitness ==
    /\ stage = "deadlines"
    /\ today = [year |-> 2024, month |-> 11, day |-> 31]
    /\ deadlines.gstr1 = [year |-> 2025, month |-> 0, day |-> 10]
    /\ deadlines.payment = [year |-> 2025, month |-> 0, day |-> 20]


-----------------------------------------------------------------------------
(* Requests for a filing that is not in the store *)

\* the step just taken answered GET /api/filing/:id or GET /api/report/:id
\* for an id that no stored filing has
AbsentIdRead ==
    /\ lastRead.handler \in {"filing", "report"}
    /\ \A i \in 1..Len(filings) : filings[i].id # lastRead.id

AbsentIdNotFound ==
    AbsentIdRead =>
      /\ lastRead.status = 404
      /\ lastRead.body = [error |-> "Filing not found"]

ReadKeepsStore ==
    lastRead'.handler \in {"filing", "report"} => filings' = filings

\* C16: a request for a filing id that is not in the store, on
\* /api/filing/:id or /api/report/:id, is answered 404 'Filing not found'
\* and leaves the filing store as it was.
AbsentFilingNotFound == []AbsentIdNotFound /\ [][ReadKeepsStore]_vars

AbsentFilingNotFoundWitness ==
    /\ Len(filings) = 1
    /\ lastRead.handler = "report"
    /\ lastRead.id = 1
    /\ filings[1].id = 0
    /\ lastRead.status = 404


-----------------------------------------------------------------------------
(* Properties of repeated calls, rates, primary keys and risk *)

\* a step in which calculateTaxes is called
CalculateTaxesStep ==
    \/ stage = "start" /\ stage' = "calculated"
    \/ stage = "analyzed" /\ stage' = "again"

\* the call leaves its rows and the fields of the agent as they were
CalculateTaxesKeepsState ==
    CalculateTaxesStep => salesData' = salesData /\ agentPlan' = agentPlan

SecondResultIsFirst == stage = "again" => taxCalculationAgain = taxCalculation

TaxedAt(i, rate) ==
    /\ Contribution(i).cgst + Contribution(i).sgst + Contribution(i).igst
         = 2 * SaleAmount(salesData[i]) * rate
    /\ HasKey(taxCalculation.salesByTaxSlab, rate)

\* C18: in calculateTaxes a row whose taxRate is present and parses as a
\* decimal, 0 included, is taxed at exactly that rate; determineTaxRate gives
\* the rate only when taxRate is absent or does not parse.
StatedRateIsUsed ==
    Calculated =>
      \A i \in Idx :
        LET stated == parseFloat(salesData[i].taxRate)
        IN  IF stated.nan
            THEN TaxedAt(i, determineTaxRate(salesData[i]))
            ELSE TaxedAt(i, stated.v)

\* m[j] is the first entry, in key order, that holds the greatest amount
FirstMaximal(m, j) ==
    /\ \A k \in 1..Len(m) : m[k].val <= m[j].val
    /\ \A k \in 1..(j - 1) : m[k].val < m[j].val

\* C19: primaryTaxSlab and primaryState are keys of the greatest summed
\* amount of salesByTaxSlab and salesByState, and of several keys with the
\* greatest amount the first in the map's key order.
PrimaryIsFirstMaximal ==
    Analyzed /\ ~businessAnalysis.threw =>
      /\ \E j \in 1..Len(taxCalculation.salesByTaxSlab) :
           /\ taxCalculation.salesByTaxSlab[j].key = businessAnalysis.value.primaryTaxSlab
           /\ FirstMaximal(taxCalculation.salesByTaxSlab, j)
      /\ \E j \in 1..Len(taxCalculation.salesByState) :
           /\ taxCalculation.salesByState[j].key = businessAnalysis.value.primaryState
           /\ FirstMaximal(taxCalculation.salesByState, j)

\* how many of the three risk conditions hold for the aggregate
RiskConditions ==
    Cardinality({c \in {"igst", "slabs", "burden"} :
        \/ c = "igst" /\ taxCalculation.igst > 0
        \/ c = "slabs" /\ Len(taxCalculation.salesByTaxSlab) > 3
        \/ c = "burden" /\ HighTaxBurden(taxCalculation)})

\* C20: assessComplianceRisk returns High exactly when igst > 0, more than 3
\* tax slabs and totalTax / totalSales > 0.15 all hold, and Medium exactly
\* when two of the three hold.
RiskByConditionCount ==
    Analyzed /\ ~businessAnalysis.threw =>
      /\ businessAnalysis.value.complianceRisk = "High" <=> RiskConditions = 3
      /\ businessAnalysis.value.complianceRisk = "Medium" <=> RiskConditions = 2


\* the score of the three checks, the tax-burden check counting nothing when
\* totalSales is 0
GuardedRiskScore ==
    (IF taxCalculation.igst > 0 THEN 1 ELSE 0)
    + (IF Len(taxCalculation.salesByTaxSlab) > 3 THEN 1 ELSE 0)
    + (IF taxCalculation.totalSales # 0 /\ HighTaxBurden(taxCalculation) THEN 1 ELSE 0)

\* C21: the risk score starts at 0 and gains 1 for igst > 0, 1 for more than
\* 3 tax slabs and 1 for totalTax / totalSales > 0.15, the last counting 0
\* and raising no error when totalSales is 0; assessComplianceRisk returns
\* Low exactly when the score is 0 or 1.
LowByGuardedScore ==
    Analyzed =>
      /\ salesData # <<>> => ~businessAnalysis.threw
      /\ ~businessAnalysis.threw =>
           (businessAnalysis.value.complianceRisk = "Low" <=> GuardedRiskScore \in {0, 1})


-----------------------------------------------------------------------------
(* C22: determineTaxRate called on its own *)

T_chair == <<"C","h","a","i","r">>
T_Food  == <<"F","O","O","D">>
T_Basic == <<"B","a","s","i","c">>
T_sea   == <<"s","e","a">>

\* the words product labels are made of: the eight keywords, keywords in
\* other letter case, and words that are no keyword
LabelWords ==
    { essential, food, common, basic, standard, processed, luxury, premium,
      T_Food, T_Basic, T_chair, T_sea }

\* labels of no word (the missing label), one word, or two words written
\* together or separated by " "
Labels ==
    {<<>>} \cup LabelWords
    \cup { a \o b : a, b \in LabelWords }
    \cup { a \o <<" ">> \o b : a \in {premium, T_chair, T_Basic}, b \in LabelWords }

InitRate ==
    /\ salesData \in
         { << [amount |-> T_1000, taxRate |-> <<>>, state |-> "", product |-> l] >> :
             l \in Labels }
    /\ stage = "label"
    /\ taxCalculation = "none"
    /\ gstCalculation = "none"
    /\ businessAnalysis = "none"
    /\ taxCalculationAgain = "none"
    /\ determinedRate = "none"
    /\ complianceCheck = "none"
    /\ deadlines = "none"
    /\ IdleServer

CallDetermineTaxRate ==
    /\ stage = "label"
    /\ determinedRate' = determineTaxRate(salesData[1])
    /\ stage' = "rated"
    /\ UNCHANGED <<salesData, taxCalculation, gstCalculation, businessAnalysis,
                   taxCalculationAgain, deadlines, complianceCheck, serverVars>>

NextRate == CallDetermineTaxRate

SpecRate == InitRate /\ [][NextRate]_vars

\* the rules of the claim in their order: the keywords of a rule and its rate
RateRules ==
    << [words |-> {essential, food},     rate |-> 0],
       [words |-> {common, basic},       rate |-> 5],
       [words |-> {standard, processed}, rate |-> 12],
       [words |-> {luxury, premium},     rate |-> 28] >>

\* letters a and b are the same letter in either case
SameLetter(a, b) ==
    \/ a = b
    \/ \E k \in 1..26 : {a, b} = {UpperCase[k], LowerCase[k]}

\* word occurs in label at some position, letter case ignored
OccursIn(word, label) ==
    \E at \in 0..(Len(label) - Len(word)) :
        \A i \in 1..Len(word) : SameLetter(label[at + i], word[i])

RuleMatches(r, label) == \E w \in RateRules[r].words : OccursIn(w, label)

\* C22: the rate determineTaxRate returns for a product label is the rate of
\* the first rule, in the order essential/food 0, common/basic 5,
\* standard/processed 12, luxury/premium 28, one of whose keywords occurs in
\* the label with letter case ignored; a label matching no rule, or a missing
\* label, gets 18.
FirstMatchingRuleWins ==
    stage = "rated" =>
        LET label == salesData[1].product
            matching == {r \in 1..Len(RateRules) : RuleMatches(r, label)}
        IN  IF matching = {} THEN determinedRate = 18
            ELSE \E r \in matching :
                    /\ \A q \in matching : r <= q
                    /\ determinedRate = RateRules[r].rate

\* a label in mixed case that matches the second and the fourth rule has been
\* rated 5
FirstMatchingRuleWinsWitness ==
    /\ stage = "rated"
    /\ salesData[1].product = premium \o <<" ">> \o T_Basic
    /\ determinedRate = 5


-----------------------------------------------------------------------------
(* C23: uploads of a CSV file of no rows *)

\* upload u carried a file that went to parseCSV and parsed to no rows; the
\* two 400 answers are sent before the file is parsed
EmptyCsvUpload(u) ==
    /\ uploads[u].locals.data = <<>>
    /\ uploads[u].response.status # 400

\* C23: an upload whose parsed CSV has no rows never gets past the analysis
\* of processBusinessData; once answered its answer is the failure (status
\* 500, "Failed to process file"), never a success, and no filing is
\* stored for it: no stored filing has empty salesData.
EmptyUploadFails ==
    /\ \A u \in 1..Len(uploads) :
         EmptyCsvUpload(u) =>
           /\ uploads[u].pc \in {"parseCSV", "done"}
           /\ ~uploads[u].response.success
           /\ uploads[u].pc = "done" =>
                uploads[u].response = Failure(500, "Failed to process file")
           /\ FilingsOf(u) = {}
    /\ \A i \in 1..Len(filings) : filings[i].salesData # <<>>

\* an upload of no rows has been answered with the failure while the filing
\* of another upload is stored
EmptyUploadFailsWitness ==
    \E u \in 1..Len(uploads) :
        /\ EmptyCsvUpload(u)
        /\ uploads[u].pc = "done"
        /\ uploads[u].response.status = 500
        /\ Len(filings) = 1


-----------------------------------------------------------------------------
(* C24, C25: checkCompliance called on the analysis of the rows *)

\* step 3 of processBusinessData; an analysis that threw never reaches it
CallCheckCompliance ==
    /\ stage = "analyzed"
    /\ ~businessAnalysis.threw
    /\ complianceCheck' = checkCompliance(businessAnalysis.value, today)
    /\ stage' = "checked"
    /\ UNCHANGED <<salesData, taxCalculation, gstCalculation, businessAnalysis,
                   taxCalculationAgain, deadlines, determinedRate, serverVars>>

NextCheck ==
    CallCalculateTaxes \/ CallCalculateGST \/ CallAnalyze \/ CallCheckCompliance

SpecCheck == InitCalc /\ [][NextCheck]_vars

Contains(seq, x) == \E i \in 1..Len(seq) : seq[i] = x

\* C24: the specialSchemes of checkCompliance contain "Composition Scheme"
\* exactly when the analysed businessSize is Micro, and are empty for Small,
\* Medium and Large.
CompositionSchemeForMicroOnly ==
    stage = "checked" =>
        LET size == businessAnalysis.value.businessSize
            schemes == complianceCheck.specialSchemes
        IN  /\ size \in {"Micro", "Small", "Medium", "Large"}
            /\ Contains(schemes, "Composition Scheme") <=> size = "Micro"
            /\ size # "Micro" => schemes = <<>>

\* the check of a Micro business offers the scheme
CompositionSchemeForMicroOnlyWitness ==
    /\ stage = "checked"
    /\ businessAnalysis.value.businessSize = "Micro"
    /\ complianceCheck.specialSchemes = <<"Composition Scheme">>

\* the check of a Small business offers no scheme
CompositionSchemeSmallNone ==
    /\ stage = "checked"
    /\ businessAnalysis.value.businessSize = "Small"
    /\ complianceCheck.specialSchemes = <<>>

\* C25: the riskAreas of checkCompliance contain "Interstate Sales" and
\* "Multiple Tax Rates" exactly when the analysed complianceRisk is not
\* Low and are empty otherwise; itcEligibility is true exactly when riskAreas
\* is empty; applicableReturns is always [GSTR-1, GSTR-3B].
RiskAreasAndItcFollowRisk ==
    stage = "checked" =>
        LET risk == businessAnalysis.value.complianceRisk
            areas == complianceCheck.riskAreas
        IN  /\ (Contains(areas, "Interstate Sales")
                  /\ Contains(areas, "Multiple Tax Rates")) <=> risk # "Low"
            /\ risk = "Low" => areas = <<>>
            /\ complianceCheck.itcEligibility <=> areas = <<>>
            /\ complianceCheck.applicableReturns = <<"GSTR-1", "GSTR-3B">>

\* the check of an analysis of Medium risk names both areas and denies the
\* input tax credit
RiskAreasAndItcFollowRiskWitness ==
    /\ stage = "checked"
    /\ businessAnalysis.value.complianceRisk = "Medium"
    /\ complianceCheck.riskAreas = <<"Interstate Sales", "Multiple Tax Rates">>
    /\ ~complianceCheck.itcEligibility

\* the check of an analysis of Low risk names no area and grants the credit
RiskAreasLowNone ==
    /\ stage = "checked"
    /\ businessAnalysis.value.complianceRisk = "Low"
    /\ complianceCheck.riskAreas = <<>>
    /\ complianceCheck.itcEligibility


-----------------------------------------------------------------------------
(* C26: the corpus is built at start-up and read afterwards *)

\* at the end of initializeKnowledgeBase every built-in document is in the
\* array and in the index, followed by the loaded files
CorpusBuilt ==
    stage = "ready" =>
        /\ Len(gstKnowledgeDocuments) >= Len(BuiltInDocuments)
        /\ SubSeq(gstKnowledgeDocuments, 1, Len(BuiltInDocuments)) = BuiltInDocuments
        /\ Len(tfidf) = Len(gstKnowledgeDocuments)

\* while the module loads no retrieval is answered and the load ends with the
\* corpus built; once requests are served a step leaves every document and
\* every index entry as it is
CorpusStep ==
    /\ stage = "load" => retrieved' = NoRetrieval /\ stage' = "ready"
    /\ stage = "ready" =>
         /\ stage' = "ready"
         /\ tfidf' = tfidf
         /\ gstKnowledgeDocuments' = gstKnowledgeDocuments

\* C26: the corpus is fully built by initializeKnowledgeBase before any
\* request is served, and from then on no operation adds, removes or changes
\* a corpus document or an index entry.
CorpusBuiltThenReadOnly == []CorpusBuilt /\ [][CorpusStep]_vars

\* a retrieval has been answered from a corpus that holds a loaded file
CorpusBuiltThenReadOnlyWitness ==
    /\ stage = "ready"
    /\ retrieved.given
    /\ retrieved.results # <<>>
    /\ Len(gstKnowledgeDocuments) > Len(BuiltInDocuments)


-----------------------------------------------------------------------------
(* C27: the two maps against totalSales and the fields of the rows *)

\* sum of the values of map m
ValueSum(m) == SumOver([j \in 1..Len(m) |-> m[j].val], 1..Len(m))

\* both maps of the totals t add up to totalSales
MapsAddUpTo(t) ==
    /\ ValueSum(t.salesByState) = t.totalSales
    /\ ValueSum(t.salesByTaxSlab) = t.totalSales

\* every state written in a row and every rate written in a row is a key of
\* the map of the totals t
RowFieldsAreKeys(t) ==
    \A i \in Idx :
        /\ salesData[i].state # "" => HasKey(t.salesByState, salesData[i].state)
        /\ ~parseFloat(salesData[i].taxRate).nan =>
             HasKey(t.salesByTaxSlab, parseFloat(salesData[i].taxRate).v)

\* C27: for every sequence of rows the values of salesByState and the values
\* of salesByTaxSlab both add up to totalSales, in calculateTaxes and in
\* calculateGST, and every state and every tax rate occurring in a row is a
\* key of the corresponding map.
MapsPartitionTotalSales ==
    /\ Calculated => MapsAddUpTo(taxCalculation) /\ RowFieldsAreKeys(taxCalculation)
    /\ GstCalculated => MapsAddUpTo(gstCalculation) /\ RowFieldsAreKeys(gstCalculation)


-----------------------------------------------------------------------------
(* C28: the index and the documents array side by side *)

\* entry i of the index was made from document i of the array
SameDocument(i) ==
    /\ tfidf[i].terms = gstKnowledgeDocuments[i].content
    /\ tfidf[i].key = gstKnowledgeDocuments[i].id

\* the measure of the words of a query counted in the text content
DocMeasure(content, query) ==
    SumOver([j \in 1..Len(query) |-> Count(query[j], content) * idf(tfidf, query[j])],
            1..Len(query))

\* C28: after initializeKnowledgeBase, whatever .txt and other files the
\* knowledge-base directory lists, the index and gstKnowledgeDocuments have
\* the same length and the i-th document of the index has the content of
\* gstKnowledgeDocuments[i]; every entry returned by
\* retrieveRelevantKnowledge is a document of the array together with the
\* measure of the index entry made from that document.
IndexAlignedWithDocuments ==
    stage = "ready" =>
        /\ Len(tfidf) = Len(gstKnowledgeDocuments)
        /\ \A i \in 1..Len(tfidf) : SameDocument(i)
        /\ \A k \in 1..Len(retrieved.results) :
             LET r == retrieved.results[k]
             IN  \E i \in 1..Len(gstKnowledgeDocuments) :
                    /\ r.document = gstKnowledgeDocuments[i]
                    /\ r.id = tfidf[i].key
                    /\ r.relevance = DocMeasure(r.document.content, retrieved.query)

\* the one document loaded from a file has been returned for a query
IndexAlignedWithDocumentsWitness ==
    /\ stage = "ready"
    /\ Len(gstKnowledgeDocuments) = Len(BuiltInDocuments) + 1
    /\ \E k \in 1..Len(retrieved.results) :
          retrieved.results[k].id = "refund.txt"


====
